---- MODULE Spec2Model ----
(***************************************************************************)
(* Apex Financial account-opening agent: the session store, the tool       *)
(* dispatch table and the bounded agentic loop of server/agent.py, driven  *)
(* by the chat endpoint of server/main.py.                                 *)
(*                                                                         *)
(* process_message is a coroutine without any await: the blocking engine   *)
(* call runs on the event loop, so one request runs to completion before   *)
(* the next one starts.  The model therefore has one request in flight,    *)
(* split into steps at the engine calls and the tool executions.           *)
(*                                                                         *)
(* The reasoning engine is the environment.  It answers each call with a  *)
(* failure, a final text or one of a few tool-call patterns, under fresh   *)
(* invocation ids.  Repeating the tool calls of its previous answer (the   *)
(* runaway cycle the loop bound exists for) is always possible; any other  *)
(* answer is counted in fresh, and MaxFresh bounds their number in a run.  *)
(* The random module is a generator that cycles through RngPeriod values.  *)
(*                                                                         *)
(* Five specifications share the state.  Spec is the chat endpoint with    *)
(* one request after the other.  SpecConc adds requests that arrive while  *)
(* a handler runs, SpecIso requests of several sessions that arrive while  *)
(* a handler runs.  SpecFields starts on any current date and lets the     *)
(* engine's first answer be one validate_field invocation on any field     *)
(* with any text of that field's set.  SpecDirect starts with one direct   *)
(* account-creation request received.                                      *)
(*                                                                         *)
(* Text the validators look into is a sequence of one-character strings;   *)
(* text that is only stored and compared is a TLA+ string.  JSON text is   *)
(* a record [wf, val]: wf says whether it parses, val is what it parses to.*)
(***************************************************************************)
EXTENDS Integers, Sequences, FiniteSets, TLC

\* ------------------------------------------------------------------ bounds
MaxFresh == 2         \* engine responses that do not repeat the previous tool calls
MaxWaiting == 1        \* requests received and not yet started
RngPeriod == 3        \* distinct values the random generator cycles through

\* --------------------------------------------------------------- constants
\* the loop bound, off by one
max_iterations_eleven == 10 + 1

max_iterations == 10

None == "<None>"
EmptyDict == [k \in {} |-> None]
SYSTEM_PROMPT == "You are Apex, the AI banking assistant for Apex Financial."
TERMS_AND_CONDITIONS == "APEX FINANCIAL - CHECKING ACCOUNT TERMS & CONDITIONS"
fallback == "I'm sorry, I encountered an issue processing your request. Please try again."

VARIABLES
    sessions,      \* agent.sessions: session id -> transcript
    pc,            \* position of the request in flight: idle, loop, tools
    request,       \* the ChatRequest being served
    session_id,    \* process_message's resolved session id
    metadata,      \* process_message's metadata dict
    iterations,    \* iterations of the agentic loop started so far
    response,      \* outcome of the latest engine call of the request
    pending,       \* tool calls of the response not executed yet
    outcome,       \* what the chat endpoint answered to the latest request
    fresh,         \* engine responses so far that did not repeat the previous one
    rng,           \* draws made so far from the random module's generator
    next_uuid,     \* uuid4 values drawn so far
    next_call_id,  \* tool-call ids the engine has issued so far
    today,         \* what date.today() returns
    waiting        \* requests received whose handler has not started yet

vars == <<sessions, pc, request, session_id, metadata, iterations, response,
          pending, outcome, fresh, rng, next_uuid, next_call_id, today, waiting>>

\* ------------------------------------------------------------ text helpers
Lowercase == <<"a","b","c","d","e","f","g","h","i","j","k","l","m",
               "n","o","p","q","r","s","t","u","v","w","x","y","z">>
Uppercase == <<"A","B","C","D","E","F","G","H","I","J","K","L","M",
               "N","O","P","Q","R","S","T","U","V","W","X","Y","Z">>
Letters == {Lowercase[i] : i \in 1..26} \cup {Uppercase[i] : i \in 1..26}
DigitChars == <<"0","1","2","3","4","5","6","7","8","9">>
AsciiDigits == {DigitChars[i] : i \in 1..10}
\* One character that is a decimal digit outside ASCII (ARABIC-INDIC DIGIT
\* THREE): the \d and \D of re count it as a digit, and int() reads it as 3.
ArabicThree == "U+0663"
\* what \d matches
Digits == AsciiDigits \cup {ArabicThree}
Whitespace == {" ", "\t", "\n", "\r"}

DigitVal(c) == IF c = ArabicThree THEN 3 ELSE (CHOOSE i \in 1..10 : DigitChars[i] = c) - 1

RECURSIVE lstrip(_)
lstrip(v) == IF v # <<>> /\ Head(v) \in Whitespace THEN lstrip(Tail(v)) ELSE v

RECURSIVE rstrip(_)
rstrip(v) ==
    IF v # <<>> /\ v[Len(v)] \in Whitespace
    THEN rstrip(SubSeq(v, 1, Len(v) - 1)) ELSE v

\* a strip that removes at most one whitespace character at each end
strip_once(v) ==
    LET a == IF v # <<>> /\ Head(v) \in Whitespace THEN Tail(v) ELSE v
    IN IF a # <<>> /\ a[Len(a)] \in Whitespace THEN SubSeq(a, 1, Len(a) - 1) ELSE a

strip(v) == rstrip(lstrip(v))

upper(v) ==
    [i \in 1..Len(v) |->
        IF \E k \in 1..26 : Lowercase[k] = v[i]
        THEN Uppercase[CHOOSE k \in 1..26 : Lowercase[k] = v[i]]
        ELSE v[i]]

\* re.sub(r"\D", "", v)
RECURSIVE digits_of(_)
digits_of(v) ==
    IF v = <<>> THEN <<>>
    ELSE IF Head(v) \in Digits THEN <<Head(v)>> \o digits_of(Tail(v))
    ELSE digits_of(Tail(v))

startswith(v, prefix) ==
    Len(v) >= Len(prefix) /\ SubSeq(v, 1, Len(prefix)) = prefix

\* re.match(r"^[a-zA-Z\s'-]+$", v)
NameRe(v) ==
    Len(v) >= 1 /\ \A i \in 1..Len(v) : v[i] \in Letters \cup Whitespace \cup {"'", "-"}

\* re.match(r"^[^\s@]+@[^\s@]+\.[^\s@]+$", v)
EmailRe(v) ==
    \E a \in 2..Len(v) :
        /\ v[a] = "@"
        /\ \A i \in 1..Len(v) : i # a => v[i] \notin Whitespace \cup {"@"}
        /\ \E d \in (a + 2)..(Len(v) - 1) : v[d] = "."

\* re.match(r"^\d{5}$", v)
ZipRe(v) == Len(v) = 5 /\ \A i \in 1..5 : v[i] \in Digits

\* re.match(r"^\d{2}/\d{2}/\d{4}$", v)
UsDateRe(v) ==
    /\ Len(v) = 10
    /\ v[3] = "/" /\ v[6] = "/"
    /\ \A i \in {1, 2, 4, 5, 7, 8, 9, 10} : v[i] \in Digits

\* re.match(r"^\d{4}-\d{2}-\d{2}$", v)
IsoDateRe(v) ==
    /\ Len(v) = 10
    /\ v[5] = "-" /\ v[8] = "-"
    /\ \A i \in {1, 2, 3, 4, 6, 7, 9, 10} : v[i] \in Digits

Num2(v, i) == 10 * DigitVal(v[i]) + DigitVal(v[i + 1])
Num4(v, i) == 100 * Num2(v, i) + Num2(v, i + 2)

IsLeap(y) == (y % 4 = 0 /\ y % 100 # 0) \/ y % 400 = 0

DaysInMonth(y, m) ==
    IF m = 2 THEN (IF IsLeap(y) THEN 29 ELSE 28)
    ELSE IF m \in {4, 6, 9, 11} THEN 30 ELSE 31

\* datetime.strptime(v, fmt).date(): the date, or ok = FALSE for ValueError
MakeDate(y, m, d) ==
    [ok |-> y >= 1 /\ m \in 1..12 /\ d >= 1 /\ d <= DaysInMonth(y, m),
     year |-> y, month |-> m, day |-> d]

NoDate == [ok |-> FALSE, year |-> 0, month |-> 0, day |-> 0]

\* strptime's own patterns: %m is 1[0-2]|0[1-9]|[1-9] and %d is
\* 3[0-1]|[1-2]\d|0[1-9]|[1-9], so of the digits of a month or a day only
\* the second digit of a day from 10 to 29 may be outside ASCII; %Y is \d\d\d\d.
StrptimeReads(v, m, d) ==
    /\ v[m] \in AsciiDigits /\ v[m + 1] \in AsciiDigits
    /\ v[d] \in AsciiDigits
    /\ v[d + 1] \in AsciiDigits \/ v[d] \in {"1", "2"}

\* datetime.strptime(v, "%m/%d/%Y") and (v, "%Y-%m-%d") on text that has
\* passed the matching pattern
strptime_us(v) ==
    IF StrptimeReads(v, 1, 4)
    THEN MakeDate(Num4(v, 7), Num2(v, 1), Num2(v, 4)) ELSE NoDate
strptime_iso(v) ==
    IF StrptimeReads(v, 6, 9)
    THEN MakeDate(Num4(v, 1), Num2(v, 6), Num2(v, 9)) ELSE NoDate

\* the age as the difference of the years alone
age_of_by_year(day, dob) == day.year - dob.year

\* today.year - dob.year - ((today.month, today.day) < (dob.month, dob.day))
age_of(day, dob) ==
    day.year - dob.year
      - (IF day.month < dob.month
            \/ (day.month = dob.month /\ day.day < dob.day)
         THEN 1 ELSE 0)

VALID_STATES ==
    {<<"A","L">>, <<"A","K">>, <<"A","Z">>, <<"A","R">>, <<"C","A">>,
     <<"C","O">>, <<"C","T">>, <<"D","E">>, <<"F","L">>, <<"G","A">>,
     <<"H","I">>, <<"I","D">>, <<"I","L">>, <<"I","N">>, <<"I","A">>,
     <<"K","S">>, <<"K","Y">>, <<"L","A">>, <<"M","E">>, <<"M","D">>,
     <<"M","A">>, <<"M","I">>, <<"M","N">>, <<"M","S">>, <<"M","O">>,
     <<"M","T">>, <<"N","E">>, <<"N","V">>, <<"N","H">>, <<"N","J">>,
     <<"N","M">>, <<"N","Y">>, <<"N","C">>, <<"N","D">>, <<"O","H">>,
     <<"O","K">>, <<"O","R">>, <<"P","A">>, <<"R","I">>, <<"S","C">>,
     <<"S","D">>, <<"T","N">>, <<"T","X">>, <<"U","T">>, <<"V","T">>,
     <<"V","A">>, <<"W","A">>, <<"W","V">>, <<"W","I">>, <<"W","Y">>,
     <<"D","C">>}

\* ------------------------------------------------------------- validation
Invalid(msg) == [valid |-> FALSE, message |-> msg]
Valid(cleaned) == [valid |-> TRUE, message |-> "Valid", cleaned_value |-> cleaned]

validate_name(label, v) ==
    IF v = <<>> THEN Invalid(label \o " is required.")
    ELSE IF Len(v) < 2 \/ Len(v) > 50 THEN Invalid(label \o " must be 2-50 characters.")
    ELSE IF ~NameRe(v)
    THEN Invalid(label \o " can only contain letters, spaces, hyphens, and apostrophes.")
    ELSE Valid(v)

validate_age(v, day, dob) ==
    IF age_of(day, dob) < 18 THEN Invalid("You must be at least 18 years old.")
    ELSE IF age_of(day, dob) > 120 THEN Invalid("Please enter a valid date of birth.")
    ELSE Valid(v)

validate_dob(v, day) ==
    IF v = <<>> THEN Invalid("Date of birth is required.")
    ELSE IF UsDateRe(v)
    THEN IF ~strptime_us(v).ok THEN Invalid("Invalid date. Use MM/DD/YYYY format.")
         ELSE validate_age(v, day, strptime_us(v))
    ELSE IF IsoDateRe(v)
    THEN IF ~strptime_iso(v).ok THEN Invalid("Invalid date. Use YYYY-MM-DD format.")
         ELSE validate_age(v, day, strptime_iso(v))
    ELSE Invalid("Please enter date in MM/DD/YYYY format.")

\* the ssn rule without the test of a leading 9
validate_ssn_area_only(v) ==
    IF Len(digits_of(v)) # 9 THEN Invalid("SSN must be exactly 9 digits.")
    ELSE IF \/ startswith(digits_of(v), <<"0","0","0">>)
            \/ startswith(digits_of(v), <<"6","6","6">>)
    THEN Invalid("Please enter a valid SSN.")
    ELSE Valid(digits_of(v))

validate_ssn(v) ==
    IF Len(digits_of(v)) # 9 THEN Invalid("SSN must be exactly 9 digits.")
    ELSE IF \/ startswith(digits_of(v), <<"0","0","0">>)
            \/ startswith(digits_of(v), <<"6","6","6">>)
            \/ startswith(digits_of(v), <<"9">>)
    THEN Invalid("Please enter a valid SSN.")
    ELSE Valid(digits_of(v))

validate_field(field_name, value, day) ==
    LET v == strip(value) IN
    CASE field_name = "firstName" -> validate_name("First name", v)
      [] field_name = "lastName" -> validate_name("Last name", v)
      [] field_name = "email" ->
            IF v = <<>> THEN Invalid("Email is required.")
            ELSE IF ~EmailRe(v) THEN Invalid("Please enter a valid email address.")
            ELSE Valid(v)
      [] field_name = "phone" ->
            IF Len(digits_of(v)) # 10
            THEN Invalid("Phone number must be exactly 10 digits.")
            ELSE Valid(digits_of(v))
      [] field_name = "dateOfBirth" -> validate_dob(v, day)
      [] field_name = "ssn" -> validate_ssn(v)
      [] field_name = "street" ->
            IF Len(v) < 5 \/ Len(v) > 100
            THEN Invalid("Street address must be 5-100 characters.")
            ELSE Valid(v)
      [] field_name = "city" ->
            IF ~NameRe(v) THEN Invalid("City can only contain letters and spaces.")
            ELSE Valid(v)
      [] field_name = "state" ->
            IF upper(v) \notin VALID_STATES
            THEN Invalid("Please enter a valid 2-letter US state code (e.g., CA, NY, TX).")
            ELSE Valid(upper(v))
      [] field_name = "zip" ->
            IF ~ZipRe(v) THEN Invalid("ZIP code must be exactly 5 digits.")
            ELSE Valid(v)
      [] OTHER -> Invalid("Unknown field: " \o field_name)

\* -------------------------------------------------------------- JSON text
json_dumps(obj) == [wf |-> TRUE, val |-> obj]
NotJson == [wf |-> FALSE, val |-> EmptyDict]

Has(d, k) == k \in DOMAIN d
Get(d, k, default) == IF Has(d, k) THEN d[k] ELSE default

Returned(x) == [raised |-> None, value |-> x]
Raised(exc) == [raised |-> exc, value |-> None]

json_loads(text) == IF text.wf THEN Returned(text.val) ELSE Raised("JSONDecodeError")

\* ---------------------------------------------------------- tool dispatch
show_agreement ==
    [terms |-> TERMS_AND_CONDITIONS,
     instruction |-> "Present these terms to the user and ask them to type 'I agree' to accept."]

create_account(data, account_number, routing_number) ==
    [success |-> TRUE,
     accountNumber |-> account_number,
     routingNumber |-> routing_number,
     accountType |-> "Checking",
     customerName |-> Get(data, "firstName", <<>>) \o <<" ">> \o Get(data, "lastName", <<>>),
     message |-> "Account created successfully!"]

\* a dispatch whose last branch creates the account instead of reporting
\* an unknown tool
execute_tool_defaulting(tool_name, arguments, day, account_number, routing_number) ==
    IF tool_name = "validate_field"
    THEN IF ~Has(arguments, "field_name") \/ ~Has(arguments, "value")
         THEN Raised("KeyError")
         ELSE Returned(json_dumps(validate_field(arguments.field_name, arguments.value, day)))
    ELSE IF tool_name = "show_agreement"
    THEN Returned(json_dumps(show_agreement))
    ELSE Returned(json_dumps(create_account(arguments, account_number, routing_number)))

execute_tool(tool_name, arguments, day, account_number, routing_number) ==
    IF tool_name = "validate_field"
    THEN IF ~Has(arguments, "field_name") \/ ~Has(arguments, "value")
         THEN Raised("KeyError")
         ELSE Returned(json_dumps(validate_field(arguments.field_name, arguments.value, day)))
    ELSE IF tool_name = "show_agreement"
    THEN Returned(json_dumps(show_agreement))
    ELSE IF tool_name = "create_account"
    THEN Returned(json_dumps(create_account(arguments, account_number, routing_number)))
    ELSE Returned(json_dumps([error |-> "Unknown tool: " \o tool_name]))

\* ------------------------------------- the validators of the direct path
Address_validate_street(v) ==
    IF Len(strip(v)) < 5 \/ Len(strip(v)) > 100
    THEN Raised("Street address must be 5-100 characters.")
    ELSE Returned(strip(v))

Address_validate_city(v) ==
    IF ~NameRe(strip(v)) THEN Raised("City can only contain letters and spaces.")
    ELSE Returned(strip(v))

Address_validate_state(v) ==
    IF upper(strip(v)) \notin VALID_STATES
    THEN Raised("Please provide a valid 2-letter US state code.")
    ELSE Returned(upper(strip(v)))

\* the zip validator without the strip
Address_validate_zip_unstripped(v) ==
    IF ~ZipRe(v) THEN Raised("ZIP code must be exactly 5 digits.")
    ELSE Returned(v)

Address_validate_zip(v) ==
    IF ~ZipRe(strip(v)) THEN Raised("ZIP code must be exactly 5 digits.")
    ELSE Returned(strip(v))

AccountRequest_validate_first_name(v) ==
    IF Len(strip(v)) < 2 \/ Len(strip(v)) > 50
    THEN Raised("First name must be 2-50 characters.")
    ELSE IF ~NameRe(strip(v))
    THEN Raised("First name can only contain letters, spaces, hyphens, and apostrophes.")
    ELSE Returned(strip(v))

AccountRequest_validate_last_name(v) ==
    IF Len(strip(v)) < 2 \/ Len(strip(v)) > 50
    THEN Raised("Last name must be 2-50 characters.")
    ELSE IF ~NameRe(strip(v))
    THEN Raised("Last name can only contain letters, spaces, hyphens, and apostrophes.")
    ELSE Returned(strip(v))

AccountRequest_validate_email(v) ==
    IF ~EmailRe(strip(v)) THEN Raised("Please provide a valid email address.")
    ELSE Returned(strip(v))

AccountRequest_validate_phone(v) ==
    IF Len(digits_of(v)) # 10 THEN Raised("Phone number must be exactly 10 digits.")
    ELSE Returned(digits_of(v))

AccountRequest_validate_age(v, day, dob) ==
    IF age_of(day, dob) < 18
    THEN Raised("You must be at least 18 years old to open an account.")
    ELSE IF age_of(day, dob) > 120 THEN Raised("Please provide a valid date of birth.")
    ELSE Returned(v)

AccountRequest_validate_dob(v, day) ==
    IF UsDateRe(strip(v))
    THEN IF ~strptime_us(strip(v)).ok
         THEN Raised("Please provide a valid date (MM/DD/YYYY).")
         ELSE AccountRequest_validate_age(strip(v), day, strptime_us(strip(v)))
    ELSE IF IsoDateRe(strip(v))
    THEN IF ~strptime_iso(strip(v)).ok
         THEN Raised("Please provide a valid date (YYYY-MM-DD).")
         ELSE AccountRequest_validate_age(strip(v), day, strptime_iso(strip(v)))
    ELSE Raised("Date of birth must be in MM/DD/YYYY or YYYY-MM-DD format.")

AccountRequest_validate_ssn(v) ==
    IF Len(digits_of(v)) # 9 THEN Raised("SSN must be exactly 9 digits.")
    ELSE IF \/ startswith(digits_of(v), <<"0","0","0">>)
            \/ startswith(digits_of(v), <<"6","6","6">>)
            \/ startswith(digits_of(v), <<"9">>)
    THEN Raised("Please provide a valid SSN.")
    ELSE Returned(digits_of(v))

\* the consent validator letting a false flag through
AccountRequest_validate_agreed_lenient(v) == Returned(v)

AccountRequest_validate_agreed(v) ==
    IF ~v THEN Raised("You must agree to the Terms & Conditions to open an account.")
    ELSE Returned(v)

\* the @field_validator registered for field f
FieldValidator(f, v, day) ==
    CASE f = "firstName" -> AccountRequest_validate_first_name(v)
      [] f = "lastName" -> AccountRequest_validate_last_name(v)
      [] f = "email" -> AccountRequest_validate_email(v)
      [] f = "phone" -> AccountRequest_validate_phone(v)
      [] f = "dateOfBirth" -> AccountRequest_validate_dob(v, day)
      [] f = "ssn" -> AccountRequest_validate_ssn(v)
      [] f = "street" -> Address_validate_street(v)
      [] f = "city" -> Address_validate_city(v)
      [] f = "state" -> Address_validate_state(v)
      [] f = "zip" -> Address_validate_zip(v)

AddressFields == {"street", "city", "state", "zip"}
FieldOrder == <<"firstName", "lastName", "email", "phone", "dateOfBirth", "ssn",
                "street", "city", "state", "zip">>

\* where a field is in the body of a direct request
LocOf(f) == IF f \in AddressFields THEN <<"body", "address", f>> ELSE <<"body", f>>
FieldOf(body, f) == IF f \in AddressFields THEN body.address[f] ELSE body[f]

\* AccountRequest(**body): every validator runs; the errors come in field
\* order, the validated model holds the values the validators returned.
AccountRequest(body, day) ==
    LET checked == [f \in DOMAIN FieldOrder |->
                      FieldValidator(FieldOrder[f], FieldOf(body, FieldOrder[f]), day)]
        failing == SelectSeq([i \in DOMAIN FieldOrder |-> i],
                             LAMBDA i : checked[i].raised # None)
        agreed == AccountRequest_validate_agreed(body.agreedToTerms)
    IN [errors |->
            [i \in 1..Len(failing) |->
                [type |-> "value_error", loc |-> LocOf(FieldOrder[failing[i]]),
                 msg |-> "Value error, " \o checked[failing[i]].raised]]
              \o (IF agreed.raised # None
                  THEN <<[type |-> "value_error", loc |-> <<"body", "agreedToTerms">>,
                          msg |-> "Value error, " \o agreed.raised]>>
                  ELSE <<>>),
        firstName |-> checked[1].value,
        lastName |-> checked[2].value]

\* --------------------------------------------------------- session store
Falsy(s) == s = None \/ s = ""

\* an identifier source that hands out the same value again
uuid4_repeating(n) == "uuid-" \o ToString((n % 1) + 1)

\* str(uuid.uuid4()) when n identifiers have been drawn: a value not drawn before
uuid4(n) == "uuid-" \o ToString(n + 1)

\* get_or_create_session without the membership test: a known id is re-seeded
get_or_create_session_reseeding(sid, store, fresh_id) ==
    LET new == IF Falsy(sid) THEN fresh_id ELSE sid IN
    [session_id |-> new,
     sessions |-> [k \in DOMAIN store \cup {new} |->
                     IF k = new
                     THEN <<[role |-> "system", content |-> SYSTEM_PROMPT]>>
                     ELSE store[k]]]

\* get_or_create_session minting an identifier for every id it does not know
get_or_create_session_minting(sid, store, fresh_id) ==
    IF Falsy(sid) \/ sid \notin DOMAIN store
    THEN [session_id |-> fresh_id,
          sessions |-> [k \in DOMAIN store \cup {fresh_id} |->
                          IF k = fresh_id
                          THEN <<[role |-> "system", content |-> SYSTEM_PROMPT]>>
                          ELSE store[k]]]
    ELSE [session_id |-> sid, sessions |-> store]

get_or_create_session(sid, store, fresh_id) ==
    IF Falsy(sid) \/ sid \notin DOMAIN store
    THEN LET new == IF Falsy(sid) THEN fresh_id ELSE sid IN
         [session_id |-> new,
          sessions |-> [k \in DOMAIN store \cup {new} |->
                          IF k = new
                          THEN <<[role |-> "system", content |-> SYSTEM_PROMPT]>>
                          ELSE store[k]]]
    ELSE [session_id |-> sid, sessions |-> store]

\* ------------------------------------------------- what the world supplies
Zip5 == <<"1","2","3","4","5">>
Zip4 == <<"1","2","3","4">>
Applicant ==
    [firstName |-> <<"A","l">>, lastName |-> <<"L","e","e">>,
     email |-> <<"a","@","b",".","c">>,
     phone |-> <<"5","5","5","1","2","3","4","5","6","7">>,
     dateOfBirth |-> <<"0","1","/","0","1","/","2","0","0","0">>,
     ssn |-> <<"0","7","8","0","5","1","1","2","0">>,
     street |-> <<"1"," ","M","a","i","n">>, city |-> <<"R","e","n","o">>,
     state |-> <<"N","V">>, zip |-> Zip5]

Call(name, arguments) == [arguments |-> arguments, name |-> name]

\* ------------------------------------------------ values the callers supply
FieldNames == {"firstName", "lastName", "email", "phone", "dateOfBirth", "ssn",
               "street", "city", "state", "zip"}

Rep(c, n) == [i \in 1..n |-> c]

\* strftime("%m"), ("%d") and ("%Y") of a number
Fmt2(n) == <<DigitChars[(n \div 10) + 1], DigitChars[(n % 10) + 1]>>
Fmt4(n) == Fmt2(n \div 100) \o Fmt2(n % 100)

Padded(S) ==
    S \cup {<<" ">> \o x : x \in S} \cup {x \o <<"\n">> : x \in S}
      \cup {<<"\t", " ">> \o x \o <<" ">> : x \in S}

NameValues ==
    Padded({<<>>, <<"A">>, <<"A","l">>, <<"A","l","1">>, <<"O","'","N">>,
            <<"A","-","B">>, <<"A"," ","B">>, <<"A","\t","B">>, <<"A",".">>,
            <<"-","-">>, Rep("a", 50), Rep("a", 51)})

EmailValues ==
    Padded({<<>>, <<"a","@","b",".","c">>, <<"a","@","b">>, <<"@","b",".","c">>,
            <<"a","@",".","c">>, <<"a","@","b",".">>, <<"a"," ","b","@","c",".","d">>,
            <<"a","@","@","b",".","c">>, <<"a","@","b","@","c",".","d">>,
            <<"a","@","b",".","c",".","d">>, <<"a",".","b","@","c",".","d">>,
            <<"a","b",".","c">>, <<"a","@","b",".",".">>, <<"@">>})

Separators == {<<>>, <<"-">>, <<" ">>}

PhoneValues ==
    {a \o s \o <<"1","2","3">> \o t \o l :
        a \in {<<"5","5","5">>, <<"(","5","5","5",")">>, <<"5","5">>, <<"1","5","5","5">>},
        s \in Separators, t \in Separators,
        l \in {<<"4","5","6","7">>, <<"4","5","6">>, <<"4","5","6","7","8">>,
               <<"4","5","6",ArabicThree>>, <<"4","5","6","x">>, <<"4","5","6","7"," ">>}}
      \cup {<<>>, <<" ">>}

SsnValues ==
    {p \o s \o m \o t \o l :
        p \in {<<"0","0","0">>, <<"6","6","6">>, <<"9","0","0">>, <<"0","7","8">>,
               <<"0","0","1">>, <<"6","6","0">>, <<"0","6","6">>, <<"1","9","9">>,
               <<ArabicThree,"7","8">>, <<"0",ArabicThree,"0">>, <<"x","9","0","0">>,
               <<" ","6","6","6">>},
        s \in Separators, t \in Separators,
        m \in {<<"0","5">>, <<"5">>},
        l \in {<<"1","1","2","0">>, <<"1","1","2">>, <<"1","1","2","0","0">>,
               <<"1","1","2","x">>, <<"1","1","2","0","\n">>}}
      \cup {<<>>, <<"6","6","6","0","0","0","0","0","0">>,
            <<"9","0","0","0","0","0","0","0","0">>}

StreetValues ==
    Padded({<<>>, <<"1"," ","M","a">>, <<"1"," ","M","a","i">>, <<"1"," ","M","a","i","n">>,
            <<"1"," "," "," ","M">>, Rep("a", 100), Rep("a", 101)})

CityValues ==
    Padded({<<>>, <<"X">>, <<"R","e","n","o">>, <<"S","t","."," ","L">>,
            <<"N","e","w"," ","Y">>, <<"O","'","F">>, <<"W","-","S">>, <<"R","2">>})

StateValues ==
    Padded({<<>>, <<"N","V">>, <<"n","v">>, <<"N","v">>, <<"d","c">>, <<"Z","Z">>,
            <<"N">>, <<"N","V","A">>, <<"N"," ","V">>, <<"1","2">>})

ZipValues ==
    Padded({<<>>, Zip5, Zip4, Zip5 \o <<"6">>, Zip4 \o <<"a">>, Zip4 \o <<ArabicThree>>,
            <<"1","2"," ","3","4","5">>, Zip5 \o <<"-">> \o Zip4})

BirthYears == {1904, 1905, 1906, 2000, 2007, 2008, 2009, 2010}
BirthMonths == {0, 1, 2, 5, 6, 7, 10, 11, 12, 13}
BirthDays == {0, 1, 2, 28, 29, 30, 31, 32}

\* a date written MM/DD/YYYY and YYYY-MM-DD
UsText(y, m, d) == Fmt2(m) \o <<"/">> \o Fmt2(d) \o <<"/">> \o Fmt4(y)
IsoText(y, m, d) == Fmt4(y) \o <<"-">> \o Fmt2(m) \o <<"-">> \o Fmt2(d)

DateValues ==
    {UsText(y, m, d) : y \in BirthYears, m \in BirthMonths, d \in BirthDays}
      \cup {IsoText(y, m, d) : y \in BirthYears, m \in BirthMonths, d \in BirthDays}
      \cup Padded({<<>>, <<"1","/","1","/","2","0","0","0">>,
                   <<"0","1","-","0","1","-","2","0","0","0">>,
                   <<"2","0","0","0","/","0","1","/","0","1">>,
                   <<"0","1","/","0","1","/","2","0",ArabicThree,"0">>,
                   <<"0","1","/","0","1","/","1","9",ArabicThree,"0">>,
                   <<"0","1","/","1",ArabicThree,"/","2","0","0","0">>,
                   <<"0","1","/","0",ArabicThree,"/","2","0","0","0">>,
                   <<"0",ArabicThree,"/","0","1","/","2","0","0","0">>,
                   <<"0","2","/",ArabicThree,"0","/","2","0","0","0">>,
                   <<"2","0","0","0","-","0","1","-","2",ArabicThree>>,
                   <<"2","0","0","0","-","0","1","-","0",ArabicThree>>,
                   <<"0","1","/","0","1","/","0","0","0","0">>,
                   <<"0","1","/","0","1","/","2","0","0","0","0">>,
                   <<"0","1","/","0","1","/","2","0","0","0">>})

ValuesOf(f) ==
    CASE f \in {"firstName", "lastName"} -> NameValues
      [] f = "email" -> EmailValues
      [] f = "phone" -> PhoneValues
      [] f = "dateOfBirth" -> DateValues
      [] f = "ssn" -> SsnValues
      [] f = "street" -> StreetValues
      [] f = "city" -> CityValues
      [] f = "state" -> StateValues
      [] f = "zip" -> ZipValues
      [] OTHER -> {Zip5, <<>>}

\* The tool-call patterns the engine answers with.
Patterns ==
    << <<Call("validate_field", json_dumps([field_name |-> "zip", value |-> Zip5]))>>,
       <<Call("validate_field", json_dumps([field_name |-> "zip", value |-> Zip4])),
         Call("show_agreement", json_dumps(EmptyDict)),
         Call("create_account", json_dumps(Applicant))>>,
       <<Call("transfer_funds", json_dumps(EmptyDict)),
         Call("create_account", json_dumps(Applicant))>>,
       <<Call("show_agreement", json_dumps(EmptyDict)),
         Call("validate_field", json_dumps([value |-> Zip5])),
         Call("show_agreement", json_dumps(EmptyDict))>>,
       <<Call("close_account", NotJson)>> >>

Contents == {None, "How can I help?"}
Messages == {"Hi"}
CallerIds == {"abc"}
LaunchDay == [year |-> 2026, month |-> 11, day |-> 1]
Todays == {[year |-> 2025, month |-> 6, day |-> 1], LaunchDay}

\* "".join(random.choices(string.digits, k=...)) at generator state n
AccountNumbers == <<"1000000001", "1000000002", "1000000003", "1000000004">>
RoutingNumbers == <<"200000001", "200000002", "200000003", "200000004">>
random_account(n) == AccountNumbers[(n % RngPeriod) + 1]
random_routing(n) == RoutingNumbers[(n % RngPeriod) + 1]

PatternOf(tool_calls) ==
    [i \in 1..Len(tool_calls) |->
        Call(tool_calls[i].function.name, tool_calls[i].function.arguments)]

\* ------------------------------------------------------------------ state
NoResponse == [kind |-> "none"]
NoOutcome == [status |-> 0]

\* the server process has started and has served nothing yet
Started ==
    /\ sessions = EmptyDict
    /\ pc = "idle"
    /\ request = [sessionId |-> None, message |-> ""]
    /\ session_id = None
    /\ metadata = EmptyDict
    /\ iterations = 0
    /\ response = NoResponse
    /\ pending = <<>>
    /\ outcome = NoOutcome
    /\ fresh = 0
    /\ rng = 0
    /\ next_uuid = 0
    /\ next_call_id = 0

Init == Started /\ today = LaunchDay /\ waiting = <<>>

history == sessions[session_id]

\* every session holding one and the same list object
AppendTurn_shared(turn) == [s \in DOMAIN sessions |-> Append(sessions[s], turn)]

AppendTurn(turn) == [sessions EXCEPT ![session_id] = Append(@, turn)]

HttpOk(reply) ==
    [status |-> 200,
     body |-> [sessionId |-> session_id, reply |-> reply, metadata |-> metadata]]
HttpError(exc) == [status |-> 500, detail |-> "Agent error: " \o exc]

\* ---------------------------------------------------------------- actions
\* an event loop that starts another handler while one waits for the engine
Runnable_suspending == pc \in {"idle", "loop"}

\* process_message has no await: once a handler has started, the event loop
\* runs nothing else until it returns.
Runnable == pc = "idle"

\* chat() calls process_message, which resolves the session, appends the user
\* turn and enters the loop.
StartHandler(sid, message) ==
    /\ Runnable
    /\ fresh < MaxFresh
    /\ request' = [sessionId |-> sid, message |-> message]
    /\ next_uuid' = IF Falsy(sid) THEN next_uuid + 1 ELSE next_uuid
    /\ LET got == get_or_create_session(sid, sessions, uuid4(next_uuid)) IN
         /\ session_id' = got.session_id
         /\ sessions' = [got.sessions EXCEPT ![got.session_id] =
                            Append(@, [role |-> "user", content |-> message])]
    /\ metadata' = EmptyDict
    /\ iterations' = 0
    /\ response' = NoResponse
    /\ pending' = <<>>
    /\ outcome' = NoOutcome
    /\ pc' = "loop"
    /\ UNCHANGED <<fresh, rng, next_call_id, today>>

\* chat() is entered as soon as the request arrives.
Chat(sid, message) == StartHandler(sid, message) /\ waiting' = waiting

\* The engine call raises and the loop swallows the exception and goes on.
EngineRaises_retrying ==
    /\ pc = "loop"
    /\ iterations < max_iterations
    /\ iterations' = iterations + 1
    /\ fresh < MaxFresh
    /\ fresh' = fresh + 1
    /\ response' = [kind |-> "raise"]
    /\ pc' = "loop"
    /\ UNCHANGED <<sessions, request, session_id, metadata, pending, outcome, rng,
                   next_uuid, next_call_id, today, waiting>>

\* The engine call raises: the exception leaves process_message and chat()
\* turns it into a 500.
EngineRaises ==
    /\ pc = "loop"
    /\ iterations < max_iterations
    /\ iterations' = iterations + 1
    /\ fresh < MaxFresh
    /\ fresh' = fresh + 1
    /\ response' = [kind |-> "raise"]
    /\ outcome' = HttpError("APIError")
    /\ pc' = "idle"
    /\ UNCHANGED <<sessions, request, session_id, metadata, pending, rng,
                   next_uuid, next_call_id, today, waiting>>

\* The engine answers with tool calls: the assistant turn recording them is
\* appended and their execution starts.
EngineAnswersWith(calls) ==
    /\ pc = "loop"
    /\ iterations < max_iterations
    /\ LET repeat == response.kind = "tool_calls"
                     /\ PatternOf(response.tool_calls) = calls
           tool_calls == [i \in 1..Len(calls) |->
                            [id |-> next_call_id + i,
                             type |-> "function",
                             function |-> calls[i]]]
       IN /\ repeat \/ fresh < MaxFresh
          /\ fresh' = IF repeat THEN fresh ELSE fresh + 1
          /\ response' = [kind |-> "tool_calls", content |-> None,
                          tool_calls |-> tool_calls]
          /\ sessions' = AppendTurn([role |-> "assistant", content |-> None,
                                     tool_calls |-> tool_calls])
          /\ pending' = tool_calls
          /\ next_call_id' = next_call_id + Len(tool_calls)
    /\ iterations' = iterations + 1
    /\ pc' = "tools"
    /\ UNCHANGED <<request, session_id, metadata, outcome, rng, next_uuid, today, waiting>>

EngineCallsTools(p) == EngineAnswersWith(Patterns[p])

\* The final reply without the `or ""`: a missing content is stored as it is.
EngineReplies_raw(content) ==
    /\ pc = "loop"
    /\ iterations < max_iterations
    /\ iterations' = iterations + 1
    /\ fresh < MaxFresh
    /\ fresh' = fresh + 1
    /\ response' = [kind |-> "text", content |-> content]
    /\ sessions' = AppendTurn([role |-> "assistant", content |-> content])
    /\ outcome' = HttpOk(content)
    /\ pc' = "idle"
    /\ UNCHANGED <<request, session_id, metadata, pending, rng, next_uuid,
                   next_call_id, today, waiting>>

\* The engine answers without tool calls: final reply.
EngineReplies(content) ==
    /\ pc = "loop"
    /\ iterations < max_iterations
    /\ iterations' = iterations + 1
    /\ fresh < MaxFresh
    /\ fresh' = fresh + 1
    /\ response' = [kind |-> "text", content |-> content]
    /\ LET reply == IF content = None THEN "" ELSE content IN
         /\ sessions' = AppendTurn([role |-> "assistant", content |-> reply])
         /\ outcome' = HttpOk(reply)
    /\ pc' = "idle"
    /\ UNCHANGED <<request, session_id, metadata, pending, rng, next_uuid,
                   next_call_id, today, waiting>>

\* Lines 360-363 for the next tool call: parse the arguments, dispatch.
Execution(tool_call, day, random) ==
    LET fn_args == json_loads(tool_call.function.arguments) IN
    IF fn_args.raised # None THEN fn_args
    ELSE execute_tool(tool_call.function.name, fn_args.value, day,
                      random_account(random), random_routing(random + 1))

\* the capture keeping the numbers of the first account of the request
Captured_first(md, fn_name, tool_result) ==
    IF fn_name = "create_account"
       /\ Has(json_loads(tool_result).value, "success")
       /\ ~Has(md, "accountCreated")
    THEN LET result_data == json_loads(tool_result).value IN
         [accountCreated |-> TRUE,
          accountNumber |-> result_data.accountNumber,
          routingNumber |-> result_data.routingNumber,
          accountType |-> result_data.accountType]
    ELSE md

Captured(md, fn_name, tool_result) ==
    IF fn_name = "create_account"
       /\ Has(json_loads(tool_result).value, "success")
       /\ json_loads(tool_result).value.success = TRUE
    THEN LET result_data == json_loads(tool_result).value IN
         [k \in DOMAIN md \cup {"accountCreated", "accountNumber",
                                "routingNumber", "accountType"} |->
            CASE k = "accountCreated" -> TRUE
              [] k = "accountNumber" -> result_data.accountNumber
              [] k = "routingNumber" -> result_data.routingNumber
              [] k = "accountType" -> result_data.accountType
              [] OTHER -> md[k]]
    ELSE md

ExecuteToolCall ==
    /\ pc = "tools"
    /\ LET tool_call == Head(pending)
           done == Execution(tool_call, today, rng)
       IN /\ done.raised = None
          /\ metadata' = Captured(metadata, tool_call.function.name, done.value)
          /\ sessions' = AppendTurn([role |-> "tool",
                                     tool_call_id |-> tool_call.id,
                                     content |-> done.value])
    /\ rng' = IF Head(pending).function.name = "create_account" THEN rng + 2 ELSE rng
    /\ pending' = Tail(pending)
    /\ pc' = IF Tail(pending) = <<>> THEN "loop" ELSE "tools"
    /\ UNCHANGED <<request, session_id, iterations, response, outcome, fresh,
                   next_uuid, next_call_id, today, waiting>>

\* Parsing the arguments or the handler raises: nothing is appended, the
\* exception leaves process_message and chat() turns it into a 500.
ToolCallRaises ==
    /\ pc = "tools"
    /\ LET done == Execution(Head(pending), today, rng)
       IN /\ done.raised # None
          /\ outcome' = HttpError(done.raised)
    /\ pc' = "idle"
    /\ UNCHANGED <<sessions, request, session_id, metadata, iterations, response,
                   pending, fresh, rng, next_uuid, next_call_id, today, waiting>>

\* The loop is exhausted: fallback reply.
Fallback ==
    /\ pc = "loop"
    /\ ~(iterations < max_iterations)
    /\ sessions' = AppendTurn([role |-> "assistant", content |-> fallback])
    /\ outcome' = HttpOk(fallback)
    /\ pc' = "idle"
    /\ UNCHANGED <<request, session_id, metadata, iterations, response, pending,
                   fresh, rng, next_uuid, next_call_id, today, waiting>>

Next ==
    \/ \E sid \in {None, ""} \cup CallerIds \cup DOMAIN sessions, message \in Messages :
          Chat(sid, message)
    \/ EngineRaises
    \/ \E p \in 1..Len(Patterns) : EngineCallsTools(p)
    \/ \E content \in Contents : EngineReplies(content)
    \/ ExecuteToolCall
    \/ ToolCallRaises
    \/ Fallback

Spec == Init /\ [][Next]_vars

\* ------------------------------------------------ requests arriving at any time
\* A request reaches the server while it is idle or while a handler runs.
Receive(sid, message) ==
    /\ Len(waiting) < MaxWaiting
    /\ waiting' = Append(waiting, [sessionId |-> sid, message |-> message])
    /\ UNCHANGED <<sessions, pc, request, session_id, metadata, iterations, response,
                   pending, outcome, fresh, rng, next_uuid, next_call_id, today>>

\* The event loop starts the handler of the request that has waited longest.
Serve ==
    /\ waiting # <<>>
    /\ StartHandler(Head(waiting).sessionId, Head(waiting).message)
    /\ waiting' = Tail(waiting)

NextConc ==
    \/ \E sid \in CallerIds, message \in Messages : Receive(sid, message)
    \/ Serve
    \/ EngineRaises
    \/ \E p \in 1..Len(Patterns) : EngineCallsTools(p)
    \/ \E content \in Contents : EngineReplies(content)
    \/ ExecuteToolCall
    \/ ToolCallRaises
    \/ Fallback

SpecConc == Init /\ [][NextConc]_vars

\* ------------------------------------- requests of several sessions arriving
\* the patterns of a single invocation: one that returns, one that raises
SinglePatterns == {p \in 1..Len(Patterns) : Len(Patterns[p]) = 1}

\* Requests without a session id, under the caller's identifier and for the
\* sessions of the store reach the server at any time; the engine asks for
\* one invocation at a time.
NextIso ==
    \/ \E sid \in {None} \cup CallerIds \cup DOMAIN sessions, message \in Messages :
          Receive(sid, message)
    \/ Serve
    \/ EngineRaises
    \/ \E p \in SinglePatterns : EngineCallsTools(p)
    \/ \E content \in Contents : EngineReplies(content)
    \/ ExecuteToolCall
    \/ ToolCallRaises
    \/ Fallback

SpecIso == Init /\ [][NextIso]_vars

\* ---------------------------------------- the engine asks for one validation
\* The validate_field invocations the engine can send: any field name with
\* any text, and arguments that miss a key or are not JSON.
FieldCall(f, v) == Call("validate_field", json_dumps([field_name |-> f, value |-> v]))

MalformedCalls ==
    <<Call("validate_field", json_dumps([value |-> Zip5])),
      Call("validate_field", json_dumps([field_name |-> "zip"])),
      Call("validate_field", json_dumps(EmptyDict)),
      Call("validate_field", NotJson)>>

InitFields == Started /\ today \in Todays /\ waiting = <<>>

\* The first answer of the engine is a single validate_field invocation.
EngineAsksField(c) == fresh = 0 /\ EngineAnswersWith(<<c>>)

NextFields ==
    \/ \E message \in Messages : Chat(None, message)
    \/ \E f \in FieldNames \cup {"middleName"} :
          \E v \in ValuesOf(f) : EngineAsksField(FieldCall(f, v))
    \/ \E k \in DOMAIN MalformedCalls : EngineAsksField(MalformedCalls[k])
    \/ ExecuteToolCall
    \/ ToolCallRaises

SpecFields == InitFields /\ [][NextFields]_vars

\* ------------------------------------------------ the direct creation path
\* the body of a direct request: the applicant with field f set to v
DirectBody(f, v, agreed) ==
    LET data == [Applicant EXCEPT ![f] = v] IN
    [firstName |-> data.firstName, lastName |-> data.lastName, email |-> data.email,
     phone |-> data.phone, dateOfBirth |-> data.dateOfBirth, ssn |-> data.ssn,
     address |-> [street |-> data.street, city |-> data.city,
                  state |-> data.state, zip |-> data.zip],
     agreedToTerms |-> agreed]

\* one direct request has arrived at a server that has served nothing yet:
\* the applicant with any one field set to any text of that field's set,
\* with and without consent
InitDirect ==
    /\ Started
    /\ today \in Todays
    /\ \E f \in FieldNames :
          \E v \in ValuesOf(f), agreed \in BOOLEAN :
              waiting = <<DirectBody(f, v, agreed)>>

\* POST /api/accounts: the body is validated into an AccountRequest; with
\* errors the endpoint function is not called and the answer is a 422 listing
\* them, without errors it draws the two numbers and answers the account.
CreateAccountDirect ==
    /\ Runnable
    /\ waiting # <<>>
    /\ Has(Head(waiting), "agreedToTerms")
    /\ request' = Head(waiting)
    /\ waiting' = Tail(waiting)
    /\ LET parsed == AccountRequest(Head(waiting), today) IN
         IF parsed.errors # <<>>
         THEN /\ outcome' = [status |-> 422, detail |-> parsed.errors]
              /\ rng' = rng
         ELSE /\ outcome' =
                    [status |-> 200,
                     body |-> [accountNumber |-> random_account(rng),
                               routingNumber |-> random_routing(rng + 1),
                               accountType |-> "Checking",
                               message |-> "Account created successfully!",
                               customerName |->
                                   parsed.firstName \o <<" ">> \o parsed.lastName]]
              /\ rng' = rng + 2
    /\ UNCHANGED <<sessions, pc, session_id, metadata, iterations, response, pending,
                   fresh, next_uuid, next_call_id, today>>

NextDirect == CreateAccountDirect

SpecDirect == InitDirect /\ [][NextDirect]_vars

\* ======================================================== transcript views
IsToolRequest(turn) == turn.role = "assistant" /\ Has(turn, "tool_calls")
IsFinalReply(turn) == turn.role = "assistant" /\ ~Has(turn, "tool_calls")

ResultsFor(t, id) == {j \in 1..Len(t) : t[j].role = "tool" /\ t[j].tool_call_id = id}

\* every recorded invocation has exactly one result turn, placed after it
Answered(t) ==
    \A i \in 1..Len(t) :
        IsToolRequest(t[i]) =>
            \A k \in 1..Len(t[i].tool_calls) :
                /\ Cardinality(ResultsFor(t, t[i].tool_calls[k].id)) = 1
                /\ \A j \in ResultsFor(t, t[i].tool_calls[k].id) : j > i

\* every assistant turn with n invocations is directly followed by n result
\* turns carrying the invocation ids in the order received
AnsweredInOrder(t) ==
    \A i \in 1..Len(t) :
        IsToolRequest(t[i]) =>
            /\ Len(t) >= i + Len(t[i].tool_calls)
            /\ \A k \in 1..Len(t[i].tool_calls) :
                  /\ t[i + k].role = "tool"
                  /\ t[i + k].tool_call_id = t[i].tool_calls[k].id

LastUser(t) == CHOOSE i \in 1..Len(t) :
                  t[i].role = "user" /\ \A j \in (i + 1)..Len(t) : t[j].role # "user"

\* result turns of the latest request of transcript t that report a created account
AccountsCreated(t) ==
    {j \in (LastUser(t) + 1)..Len(t) :
        /\ t[j].role = "tool"
        /\ Has(t[j].content.val, "success")}

IsPrefix(a, b) == Len(a) <= Len(b) /\ SubSeq(b, 1, Len(a)) = a

EngineIsCalled == pc = "loop" /\ iterations < 10

KnownTools == {"validate_field", "show_agreement", "create_account"}

\* ================================================================== claims

\* C1: whenever process_message invokes the reasoning engine, every tool
\* invocation recorded in an assistant turn of the session's transcript has
\* exactly one tool turn with the same invocation id, located after it.
C1_EngineSeesAnsweredCalls == EngineIsCalled => Answered(history)

\* C2: for an engine response with n >= 1 invocations the assistant turn is
\* followed by exactly n tool turns, in the order received, before the next
\* engine call.
C2_ResultsInOrderBeforeNextCall == EngineIsCalled => AnsweredInOrder(history)

\* C3: one process_message call invokes the engine at most 10 times and then
\* finishes: the number of engine calls of a request never exceeds 10, and
\* every step of a request in flight ends it, starts the next iteration or
\* consumes one pending tool call.
C3_AtMostTenEngineCalls ==
    /\ [](iterations <= 10)
    /\ [][pc # "idle" =>
            \/ pc' = "idle"
            \/ iterations' = iterations + 1
            \/ iterations' = iterations /\ Len(pending') < Len(pending)]_vars

\* a request finished by the engine's 10th answer
C3_Witness == pc = "idle" /\ iterations = 10 /\ response.kind = "text"

\* C4: when the engine returns tool invocations on all 10 iterations the call
\* does not raise: the fallback is appended as an assistant turn and returned
\* with the session id and the captured metadata.
C4_ExhaustionFallsBack ==
    (pc = "idle" /\ iterations = 10 /\ response.kind = "tool_calls") =>
        /\ outcome.status = 200
        /\ outcome.body = [sessionId |-> session_id, reply |-> fallback,
                           metadata |-> metadata]
        /\ history[Len(history)] = [role |-> "assistant", content |-> fallback]

\* C5: a call that runs into the 10-iteration bound has created at most one
\* account.
C5_NoSecondAccount ==
    (pc = "idle" /\ outcome.status = 200 /\ outcome.body.reply = fallback) =>
        Cardinality(AccountsCreated(history)) <= 1

\* C6: after a request whose engine call failed, the transcript holds no
\* incomplete exchange: it ends with a final assistant reply and every
\* recorded invocation has its result turn.
C6_NoPartialExchange ==
    (pc = "idle" /\ response.kind = "raise") =>
        /\ IsFinalReply(history[Len(history)])
        /\ Answered(history)

\* C7: a failing engine call ends the request at once with a service-level
\* error: the failing step appends nothing, starts no tool and answers 500,
\* and the request never resumes after it.
C7_EngineFailureEndsRequest ==
    /\ [][(response'.kind = "raise" /\ iterations' = iterations + 1) =>
            /\ pc' = "idle"
            /\ outcome'.status = 500
            /\ sessions' = sessions
            /\ pending' = <<>>]_vars
    /\ [](response.kind = "raise" => (pc = "idle" /\ outcome.status = 500))

\* the engine fails after an iteration that executed tool calls
C7_Witness ==
    /\ response.kind = "raise"
    /\ iterations > 1
    /\ \E j \in 1..Len(history) : history[j].role = "tool"

\* C8: an invocation with an unknown tool name does not fail the request: its
\* structured error is appended as its result turn and the request goes on
\* with the remaining invocations or the next engine call.
C8_UnknownToolContinues ==
    [][(pc = "tools" /\ Head(pending).function.name \notin KnownTools) =>
          /\ pc' # "idle"
          /\ pending' = Tail(pending)
          /\ Len(history') = Len(history) + 1
          /\ history'[Len(history')].role = "tool"
          /\ history'[Len(history')].tool_call_id = Head(pending).id
          /\ Has(history'[Len(history')].content.val, "error")]_vars

\* C9: transcripts only grow: every step keeps every session and extends its
\* transcript, and a request on an existing session id makes that session's
\* transcript strictly longer.
C9_TranscriptsOnlyGrow ==
    /\ [][\A s \in DOMAIN sessions :
            s \in DOMAIN sessions' /\ IsPrefix(sessions[s], sessions'[s])]_vars
    /\ [][(pc = "idle" /\ pc' # "idle" /\ request'.sessionId \in DOMAIN sessions) =>
            /\ session_id' = request'.sessionId
            /\ Len(sessions'[session_id']) > Len(sessions[session_id'])]_vars

\* a session that served a failed request and then a further request
C9_Witness ==
    /\ pc = "idle"
    /\ outcome.status = 200
    /\ \E i \in 1..(Len(history) - 1) :
          history[i].role = "user" /\ history[i + 1].role = "user"

\* a request naming an identifier that is present but not in the store
StartsOnUnknownId ==
    /\ pc = "idle"
    /\ pc' # "idle"
    /\ ~Falsy(request'.sessionId)
    /\ request'.sessionId \notin DOMAIN sessions

SeededForRequest(t) ==
    /\ Len(t) = 2
    /\ t[1] = [role |-> "system", content |-> SYSTEM_PROMPT]
    /\ t[2].role = "user"

\* C10 as stated: an identifier that is present but not in the store is not
\* adopted; a new unique identifier is minted and its transcript seeded with
\* a single system turn.
C10_MintsForUnknownId ==
    [][StartsOnUnknownId =>
          /\ session_id' # request'.sessionId
          /\ session_id' \notin DOMAIN sessions
          /\ SeededForRequest(sessions'[session_id'])]_vars

\* C10 amended: an identifier that is present but not in the store becomes
\* the key of a new session, whose transcript is seeded with a single system
\* turn; no identifier is minted.
C10_AdoptsUnknownId ==
    [][StartsOnUnknownId =>
          /\ session_id' = request'.sessionId
          /\ DOMAIN sessions' = DOMAIN sessions \cup {request'.sessionId}
          /\ SeededForRequest(sessions'[session_id'])
          /\ next_uuid' = next_uuid]_vars

\* a session created under the caller's identifier next to an earlier session
C10_Witness ==
    /\ pc = "loop"
    /\ iterations = 0
    /\ request.sessionId = "abc"
    /\ session_id = "abc"
    /\ Len(history) = 2
    /\ Cardinality(DOMAIN sessions) = 2

\* a request that omits the session id (absent or empty) starts
StartsWithoutId ==
    /\ pc = "idle"
    /\ pc' # "idle"
    /\ Falsy(request'.sessionId)

\* C11: every request that omits the session id creates a session under an
\* identifier that no session of the store has, leaves the other sessions as
\* they are, and its transcript is exactly one system turn followed by the
\* request's user turn.
C11_OmittedIdGetsNewSession ==
    [][StartsWithoutId =>
          /\ session_id' \notin DOMAIN sessions
          /\ DOMAIN sessions' = DOMAIN sessions \cup {session_id'}
          /\ \A s \in DOMAIN sessions : sessions'[s] = sessions[s]
          /\ sessions'[session_id'] =
                <<[role |-> "system", content |-> SYSTEM_PROMPT],
                  [role |-> "user", content |-> request'.message]>>]_vars

\* the second request without a session id has just started
C11_Witness ==
    /\ pc = "loop"
    /\ iterations = 0
    /\ Falsy(request.sessionId)
    /\ next_uuid = 2
    /\ {uuid4(0), uuid4(1)} \subseteq DOMAIN sessions
    /\ session_id = uuid4(1)
    /\ Len(sessions[uuid4(0)]) > 2
    /\ Len(history) = 2

\* the result of the latest create_account of the request in flight
LatestCreated(t) ==
    t[CHOOSE j \in AccountsCreated(t) : \A k \in AccountsCreated(t) : k <= j].content.val

\* result turns of earlier requests of transcript t that report a created account
CreatedEarlier(t) ==
    {j \in 1..(LastUser(t) - 1) : t[j].role = "tool" /\ Has(t[j].content.val, "success")}

\* C13: the metadata of a request is empty until a create_account invocation
\* of that request reports success, and from then on it is exactly
\* accountCreated = true with the account number, routing number and account
\* type of that invocation's result turn; accounts created by earlier requests
\* of the session never show in it, and a 200 answer returns it as it is.
C13_MetadataOfThisRequest ==
    session_id \in DOMAIN sessions =>
        /\ metadata =
              IF AccountsCreated(history) = {} THEN EmptyDict
              ELSE [accountCreated |-> TRUE,
                    accountNumber |-> LatestCreated(history).accountNumber,
                    routingNumber |-> LatestCreated(history).routingNumber,
                    accountType |-> LatestCreated(history).accountType]
        /\ outcome.status = 200 => outcome.body.metadata = metadata

\* a request has created an account on a session where an earlier request
\* had created one with another account number
C13_Witness ==
    /\ session_id \in DOMAIN sessions
    /\ Has(metadata, "accountCreated")
    /\ \E j \in CreatedEarlier(history) :
          history[j].content.val.accountNumber # metadata.accountNumber

\* the text of an engine response without tool invocations
ReplyOf(r) == IF r.content = None THEN "" ELSE r.content

\* C19: whenever process_message returns, the last turn of the session's
\* transcript is an assistant turn without tool invocations holding the
\* returned reply; an engine response without tool invocations appends
\* exactly one such turn (the empty text when it has no content), ends the
\* request with that reply, and no engine call follows it in the request.
C19_ReturnEndsWithReply ==
    /\ []((pc = "idle" /\ outcome.status = 200) =>
            history[Len(history)] = [role |-> "assistant", content |-> outcome.body.reply])
    /\ [][(response'.kind = "text" /\ iterations' = iterations + 1) =>
            /\ sessions' = [sessions EXCEPT ![session_id] =
                               Append(@, [role |-> "assistant",
                                          content |-> ReplyOf(response')])]
            /\ outcome'.status = 200
            /\ outcome'.body.reply = ReplyOf(response')
            /\ pc' = "idle"]_vars
    /\ [](response.kind = "text" => pc = "idle")

\* a request that executed tools ends on an engine response without content
C19_Witness ==
    /\ pc = "idle"
    /\ outcome.status = 200
    /\ response.kind = "text"
    /\ response.content = None
    /\ outcome.body.reply = ""
    /\ history[Len(history) - 1].role = "tool"
    /\ history[Len(history)] = [role |-> "assistant", content |-> ""]

\* result turn j of transcript t answers an invocation of the tool `name`
Asked(t, j, name) ==
    \E i \in 1..(j - 1) :
        /\ IsToolRequest(t[i])
        /\ \E k \in 1..Len(t[i].tool_calls) :
              /\ t[i].tool_calls[k].id = t[j].tool_call_id
              /\ t[i].tool_calls[k].function.name = name

\* result turn j of transcript t answers a validate_field invocation for field f
AskedField(t, j, f) ==
    \E i \in 1..(j - 1) :
        /\ IsToolRequest(t[i])
        /\ \E k \in 1..Len(t[i].tool_calls) :
              /\ t[i].tool_calls[k].id = t[j].tool_call_id
              /\ t[i].tool_calls[k].function.name = "validate_field"
              /\ Has(t[i].tool_calls[k].function.arguments.val, "field_name")
              /\ t[i].tool_calls[k].function.arguments.val.field_name = f

\* result turns of transcript t that report a created account
Created(t) == {j \in 1..Len(t) : t[j].role = "tool" /\ Has(t[j].content.val, "success")}

\* before turn j, validate_field has returned valid for field f
ValidatedBefore(t, j, f) ==
    \E r \in 1..(j - 1) :
        /\ t[r].role = "tool"
        /\ Has(t[r].content.val, "valid")
        /\ t[r].content.val.valid
        /\ AskedField(t, r, f)

\* before turn j the agreement has been shown and a user turn has followed it
ConsentedBefore(t, j) ==
    \E a \in 1..(j - 1) :
        /\ t[a].role = "tool"
        /\ Asked(t, a, "show_agreement")
        /\ \E u \in (a + 1)..(j - 1) : t[u].role = "user"

C12_HandlersDoNotInterleave ==
    [][pc # "idle" =>
          /\ request' = request
          /\ session_id' = session_id
          /\ DOMAIN sessions' = DOMAIN sessions
          /\ IsPrefix(history, history')
          /\ \A j \in (Len(history) + 1)..Len(history') : history'[j].role # "user"]_vars

\* a request for the session of the running handler waits while the handler
\* is between an invocation turn and its result turns
C12_Witness ==
    /\ pc = "tools"
    /\ Len(pending) < Len(response.tool_calls)
    /\ waiting # <<>>
    /\ Head(waiting).sessionId = session_id

\* the handler is about to execute a validate_field invocation
ValidatesNext == pc = "tools" /\ Head(pending).function.name = "validate_field"

\* {valid, message} with cleaned_value exactly when valid
WellFormedResult(r) ==
    /\ Has(r, "valid")
    /\ Has(r, "message")
    /\ Has(r, "cleaned_value") <=> r.valid

\* C16: field validation is total. Executing a validate_field invocation,
\* whatever arguments the engine sent, does not fail the request: it appends
\* a result turn holding a valid flag and a message, with a cleaned value
\* exactly when valid, and valid is false for a field name that is not one of
\* the 10.
C16_ValidationIsTotal ==
    [][ValidatesNext =>
          /\ outcome'.status # 500
          /\ Len(history') = Len(history) + 1
          /\ history'[Len(history')].role = "tool"
          /\ history'[Len(history')].tool_call_id = Head(pending).id
          /\ WellFormedResult(history'[Len(history')].content.val)
          /\ (/\ Has(Head(pending).function.arguments.val, "field_name")
              /\ Head(pending).function.arguments.val.field_name \notin FieldNames)
                => ~history'[Len(history')].content.val.valid]_vars

\* the request has just received the result of a validate_field invocation
\* for field f
Validated(f) ==
    /\ session_id \in DOMAIN sessions
    /\ Len(history) >= 2
    /\ history[Len(history)].role = "tool"
    /\ IsToolRequest(history[Len(history) - 1])
    /\ history[Len(history) - 1].tool_calls[1].function.name = "validate_field"
    /\ Has(history[Len(history) - 1].tool_calls[1].function.arguments.val, "field_name")
    /\ history[Len(history) - 1].tool_calls[1].function.arguments.val.field_name = f

GivenValue == history[Len(history) - 1].tool_calls[1].function.arguments.val.value
LastResult == history[Len(history)].content.val

IsCalendarDate(y, m, d) == m \in 1..12 /\ d \in 1..DaysInMonth(y, m)

\* the year difference, minus one when (month, day) of `day` is before the
\* (month, day) of birth
AgeOn(day, y, m, d) ==
    day.year - y - (IF 100 * day.month + day.day < 100 * m + d THEN 1 ELSE 0)

\* C17: for the current date and every calendar date of birth, in either
\* format, the dateOfBirth validator accepts exactly when the age is from 18
\* to 120; a person whose 18th birthday is today is accepted, one whose 18th
\* birthday is tomorrow is rejected and one whose 121st birthday is today is
\* rejected.
C17_AgeFrom18To120 ==
    Validated("dateOfBirth") =>
        /\ \A y \in BirthYears, m \in BirthMonths, d \in BirthDays :
              (/\ IsCalendarDate(y, m, d)
               /\ strip(GivenValue) \in {UsText(y, m, d), IsoText(y, m, d)}) =>
                  (LastResult.valid <=>
                      (18 <= AgeOn(today, y, m, d) /\ AgeOn(today, y, m, d) <= 120))
        /\ GivenValue = UsText(today.year - 18, today.month, today.day)
              => LastResult.valid
        /\ GivenValue = UsText(today.year - 18, today.month, today.day + 1)
              => ~LastResult.valid
        /\ GivenValue = UsText(today.year - 121, today.month, today.day)
              => ~LastResult.valid

\* the validator has accepted a person whose 18th birthday is today
C17_Witness ==
    /\ Validated("dateOfBirth")
    /\ GivenValue = IsoText(today.year - 18, today.month, today.day)
    /\ LastResult.valid
    /\ LastResult.cleaned_value = GivenValue

\* the digit characters of v, in order
OnlyDigits(v) == SelectSeq(v, LAMBDA c : c \in Digits)

\* C18: the ssn validator drops the non-digit characters and accepts exactly
\* when 9 digits remain, the first three are neither 000 nor 666 and the
\* first is not 9; on acceptance the cleaned value is the 9-digit string.
C18_SsnRule ==
    Validated("ssn") =>
        /\ LastResult.valid <=>
              /\ Len(OnlyDigits(GivenValue)) = 9
              /\ SubSeq(OnlyDigits(GivenValue), 1, 3) \notin {<<"0","0","0">>, <<"6","6","6">>}
              /\ OnlyDigits(GivenValue)[1] # "9"
        /\ LastResult.valid => LastResult.cleaned_value = OnlyDigits(GivenValue)

\* 078-05-1120 has been accepted and cleaned to 078051120
C18_Witness ==
    /\ Validated("ssn")
    /\ GivenValue = <<"0","7","8","-","0","5","-","1","1","2","0">>
    /\ LastResult.valid
    /\ LastResult.cleaned_value = <<"0","7","8","0","5","1","1","2","0">>

\* every field of the body satisfies the field rules of validate_field
SatisfiesFieldRules(body, day) ==
    \A f \in FieldNames : validate_field(f, FieldOf(body, f), day).valid

ErrorLocs(detail) == {detail[i].loc : i \in 1..Len(detail)}

\* C15: the direct operation answers an account exactly when all 10 fields
\* satisfy the field rules and the consent flag is true; otherwise it answers
\* a structured error that names only fields that break their rule or the
\* consent flag, and draws no account or routing number.
C15_DirectCreationOnlyWhenValid ==
    [][waiting' # waiting =>
          IF SatisfiesFieldRules(Head(waiting), today) /\ Head(waiting).agreedToTerms
          THEN /\ outcome'.status = 200
               /\ outcome'.body.accountNumber = random_account(rng)
               /\ outcome'.body.routingNumber = random_routing(rng + 1)
               /\ rng' = rng + 2
          ELSE /\ outcome'.status = 422
               /\ ~Has(outcome', "body")
               /\ outcome'.detail # <<>>
               /\ \A loc \in ErrorLocs(outcome'.detail) :
                     \/ loc = <<"body", "agreedToTerms">> /\ ~Head(waiting).agreedToTerms
                     \/ \E f \in FieldNames :
                           /\ loc = LocOf(f)
                           /\ ~validate_field(f, FieldOf(Head(waiting), f), today).valid
               /\ rng' = rng]_vars

\* a request whose fields are all valid is refused for its consent flag alone
C15_Witness ==
    /\ Has(request, "agreedToTerms")
    /\ ~request.agreedToTerms
    /\ SatisfiesFieldRules(request, today)
    /\ outcome.status = 422
    /\ ErrorLocs(outcome.detail) = {<<"body", "agreedToTerms">>}
    /\ rng = 0

\* C20: the direct path and the dialogue path validate alike. For each of
\* the 10 fields of a direct request, the direct path's validator accepts the
\* text exactly when validate_field finds it valid, both then give the same
\* normalized value, and the answer names the field as an error exactly when
\* validate_field finds it invalid.
C20_PathsValidateAlike ==
    Has(request, "agreedToTerms") =>
        \A f \in FieldNames :
            /\ (FieldValidator(f, FieldOf(request, f), today).raised = None)
                  <=> validate_field(f, FieldOf(request, f), today).valid
            /\ validate_field(f, FieldOf(request, f), today).valid =>
                  FieldValidator(f, FieldOf(request, f), today).value
                    = validate_field(f, FieldOf(request, f), today).cleaned_value
            /\ (outcome.status = 422 /\ LocOf(f) \in ErrorLocs(outcome.detail))
                  <=> ~validate_field(f, FieldOf(request, f), today).valid

\* a phone number written with punctuation has passed the direct path
C20_Witness ==
    /\ Has(request, "agreedToTerms")
    /\ request.phone = <<"(","5","5","5",")"," ","1","2","3","-","4","5","6","7">>
    /\ outcome.status = 200
    /\ FieldValidator("phone", request.phone, today).value
          = <<"5","5","5","1","2","3","4","5","6","7">>
    /\ validate_field("phone", request.phone, today).cleaned_value
          = <<"5","5","5","1","2","3","4","5","6","7">>

\* the identifiers of the invocations requested and answered in transcript t
CallIds(t) ==
    UNION {IF IsToolRequest(t[j])
           THEN {t[j].tool_calls[i].id : i \in 1..Len(t[j].tool_calls)}
           ELSE IF t[j].role = "tool" THEN {t[j].tool_call_id} ELSE {} : j \in 1..Len(t)}

\* C21: sessions are isolated. Every step of the server, whether it starts a
\* request, continues it or ends it in a reply or a failure, and whatever
\* requests wait meanwhile, keeps every session other than the one of the
\* request being served, with its transcript as it was; and no invocation or
\* result of one session's requests is in the transcript of another session.
C21_SessionsIsolated ==
    /\ [][\A b \in DOMAIN sessions :
            b # session_id' => b \in DOMAIN sessions' /\ sessions'[b] = sessions[b]]_vars
    /\ [](\A a, b \in DOMAIN sessions :
            a # b => CallIds(sessions[a]) \cap CallIds(sessions[b]) = {})

\* a request on one session has received a result while another session
\* holds the turns of an earlier, failed request and a request for that other
\* session waits
C21_Witness ==
    /\ pc = "loop"
    /\ iterations = 1
    /\ history[Len(history)].role = "tool"
    /\ waiting # <<>>
    /\ Head(waiting).sessionId \in DOMAIN sessions \ {session_id}
    /\ CallIds(sessions[Head(waiting).sessionId]) # {}

\* C22: normalization is idempotent. For each of the 10 fields, when
\* validate_field has accepted a text and returned the cleaned value c, then
\* validate_field on c for the same field, at the same current date, accepts
\* and returns the cleaned value c.
C22_NormalizationIsIdempotent ==
    \A f \in FieldNames :
        (Validated(f) /\ LastResult.valid) =>
            validate_field(f, LastResult.cleaned_value, today)
              = Valid(LastResult.cleaned_value)

\* a state code written in lower case between whitespace has been accepted
\* and cleaned to the upper-case code
C22_Witness ==
    /\ Validated("state")
    /\ GivenValue = <<"\t", " ", "n", "v", " ">>
    /\ LastResult.valid
    /\ LastResult.cleaned_value = <<"N", "V">>
====
